---- MODULE Spec2Model ----
(***************************************************************************)
(* A model of node_server.py: one node of the blockchain network.  The     *)
(* node's state is the module-level `blockchain` (its chain and its pool   *)
(* of unconfirmed data) and `peers`.  The Flask handlers run in threads,   *)
(* so /mine (mine, consensus, announce_new_block) and /add_block are       *)
(* modelled step by step, each step one group of source lines that reads   *)
(* or writes the shared state once; /new_data and /register_node are one   *)
(* step each, /register_with is one step and its answer.  /chain and       *)
(* /pending_tx only read and are left out.  Spec is the node with its      *)
(* requests interleaved, FairSpec adds that a running search goes on,      *)
(* SeqSpec serves one request at a time, and ValiditySpec is a direct call *)
(* of check_chain_validity on a list of blocks.                            *)
(*                                                                         *)
(* Strings (hex digests, the "0" sentinel) are sequences of naturals.      *)
(* sha256 is modelled as a collision-free digest: the leading `difficulty` *)
(* digits are computed from the serialized text and the text follows.      *)
(***************************************************************************)
EXTENDS Integers, Sequences, FiniteSets, TLC

\* Blockchain.difficulty
difficulty == 2

\* The number of values a digit of a digest takes (16 in a hexdigest).
Radix == 2
\* The chain holds at most MaxChain blocks when an appending request starts.
MaxChain == 2
\* The pool holds at most MaxPool entries when /new_data is accepted.
MaxPool == 2

\* time.time(): the clock values a request may read.
Times == {1}
\* The "author" and "content" a /new_data request carries; 0 is a missing
\* or empty field.
Authors == {0, 1}
Contents == {0, 1}
\* The "node_address" a /register_node request carries; 0 is an empty one.
NodeAddresses == {0, 1}

Threads == {"mine", "peer"}

VARIABLES
    chain,             \* blockchain.chain
    unconfirmed_data,  \* blockchain.unconfirmed_data
    peers,             \* peers
    pc,                \* where each handler thread stands
    blk,               \* add_block's `block` (mine's new_block), per thread
    prf,               \* add_block's `proof`, per thread
    added,             \* what add_block returned, per thread
    last_block,        \* mine's local last_block
    computed_hash,     \* proof_of_work's local computed_hash
    aliasIdx,          \* position in chain of the block whose data IS the pool list (0: none)
    mret,              \* what mine() returned
    hres,              \* how the /mine request ended
    chain_length,      \* mine_unconfirmed_data's local chain_length
    current_len,       \* consensus's local current_len
    longest_chain,     \* consensus's local longest_chain
    todo,              \* the peers consensus's loop has not visited yet
    npeers,            \* the size of peers when consensus's loop started
    cret,              \* what consensus() returned
    late,              \* history: the entries added since mine built its candidate
    qualified,         \* history: consensus polled a strictly longer, fully valid chain
    rpc,               \* where the /register_with handler stands
    chain_dump,        \* register_with_existing_node's local chain_dump
    rres,              \* how the /register_with request ended
    vchain,            \* the list a direct call of check_chain_validity is given
    vresult            \* what that call returned

vars == <<chain, unconfirmed_data, peers, pc, blk, prf, added, last_block,
          computed_hash, aliasIdx, mret, hres, chain_length, current_len,
          longest_chain, todo, npeers, cret, late, qualified, rpc, chain_dump,
          rres, vchain, vresult>>

mineVars == <<last_block, computed_hash, mret, hres>>
consVars == <<chain_length, current_len, longest_chain, todo, npeers, cret, qualified>>
regVars == <<rpc, chain_dump, rres>>
callVars == <<vchain, vresult>>

----------------------------------------------------------------------------
\* Strings and serialization

\* The number the leading digits of a digest are taken from: every
\* character of the text counts, with a weight that depends on its place.
RECURSIVE MixTo(_, _)
MixTo(s, n) == IF n = 0 THEN 0 ELSE s[n] * <<5, 1, 7>>[((n - 1) % 3) + 1] + MixTo(s, n - 1)

Mix(s) == MixTo(s, Len(s))

RECURSIVE Pow(_, _)
Pow(b, n) == IF n = 0 THEN 1 ELSE b * Pow(b, n - 1)

\* '0' * n
Zeros(n) == [i \in 1..n |-> 0]

\* str.startswith
StartsWith(s, prefix) == Len(s) >= Len(prefix) /\ SubSeq(s, 1, Len(prefix)) = prefix

\* json.dumps of a string: its length, then its characters.
DumpsStr(s) == <<Len(s)>> \o s

\* json.dumps of one entry, keys sorted: author, content, timestamp.
DumpsEntry(e) == <<e.author, e.content, e.timestamp>>

\* json.dumps of the data list: its length, then its entries in order.
RECURSIVE DumpsEntries(_)
DumpsEntries(d) == IF d = <<>> THEN <<>> ELSE DumpsEntry(Head(d)) \o DumpsEntries(Tail(d))

DumpsList(d) == <<Len(d)>> \o DumpsEntries(d)

\* Block.__init__: a block has no hash attribute until one is assigned.
Block(index, data, timestamp, previous_hash, nonce) == [cls |-> "Block", index |-> index, data |-> data, timestamp |-> timestamp, previous_hash |-> previous_hash, nonce |-> nonce, has_hash |-> FALSE, hash |-> <<>>]

\* block.hash = h
SetHash(b, h) == [b EXCEPT !.has_hash = TRUE, !.hash = h]

\* delattr(block, "hash")
DelHash(b) == [b EXCEPT !.has_hash = FALSE, !.hash = <<>>]

\* json.dumps(self.__dict__, sort_keys=True): the number of keys, then the
\* values in key order data, hash (when the attribute exists), index, nonce,
\* previous_hash, timestamp.
Dumps(b) == <<IF b.has_hash THEN 6 ELSE 5>> \o DumpsList(b.data) \o (IF b.has_hash THEN DumpsStr(b.hash) ELSE <<>>) \o <<b.index, b.nonce>> \o DumpsStr(b.previous_hash) \o <<b.timestamp>>

\* sha256(text).hexdigest(): the first `difficulty` digits, then the rest of
\* the digest, which differs whenever the text differs.
Sha256(text) == [i \in 1..difficulty |-> (Mix(text) \div Pow(Radix, i - 1)) % Radix] \o text

\* Block.compute_hash
ComputeHash(b) == Sha256(Dumps(b))

\* is_valid_proof without the recomputation: the caller's hash is trusted.
IsValidProofTrusting(block, block_hash) == StartsWith(block_hash, Zeros(difficulty))

\* Blockchain.is_valid_proof
IsValidProof(block, block_hash) == StartsWith(block_hash, Zeros(difficulty)) /\ block_hash = ComputeHash(block)

\* Blockchain.create_genesis_block: the genesis block with its hash.
GenesisBlock == SetHash(Block(0, <<>>, 0, <<0>>, 0), ComputeHash(Block(0, <<>>, 0, <<0>>, 0)))

\* Blockchain.last_block
LastBlock == chain[Len(chain)]

NoBlock == Block(0, <<>>, 0, <<>>, 0)

----------------------------------------------------------------------------
\* The node after the module is loaded (lines 131-138), no request served yet.
NodeInit ==
    /\ chain = <<GenesisBlock>>
    /\ unconfirmed_data = <<>>
    /\ peers = {}
    /\ pc = [t \in Threads |-> "idle"]
    /\ blk = [t \in Threads |-> NoBlock]
    /\ prf = [t \in Threads |-> <<>>]
    /\ added = [t \in Threads |-> "None"]
    /\ last_block = NoBlock
    /\ computed_hash = <<>>
    /\ aliasIdx = 0
    /\ mret = "None"
    /\ hres = "None"
    /\ chain_length = 0
    /\ current_len = 0
    /\ longest_chain = [set |-> FALSE, chain |-> <<>>]
    /\ todo = {}
    /\ npeers = 0
    /\ cret = "None"
    /\ late = <<>>
    /\ qualified = FALSE
    /\ rpc = "idle"
    /\ chain_dump = <<>>
    /\ rres = "None"

\* No direct call of check_chain_validity is made on the node.
Init ==
    /\ NodeInit
    /\ vchain = <<>>
    /\ vresult = "None"

----------------------------------------------------------------------------
\* Blockchain.check_chain_validity: the walk from position i, with the
\* chain as the walk leaves it.  An element that is no Block with a hash
\* attribute (a dict of a JSON chain dump) makes `block.hash` raise.
RECURSIVE CheckFrom(_, _, _)
CheckFrom(c, i, previous_hash) ==
    IF i > Len(c) THEN [result |-> "True", chain |-> c]
    ELSE IF c[i].cls # "Block" \/ ~c[i].has_hash THEN [result |-> "AttributeError", chain |-> c]
    ELSE LET block_hash == c[i].hash
             block == DelHash(c[i])
         IN  IF ~IsValidProof(block, block_hash) \/ previous_hash # block.previous_hash
             THEN [result |-> "False", chain |-> [c EXCEPT ![i] = block]]
             ELSE CheckFrom([c EXCEPT ![i] = SetHash(block, block_hash)], i + 1, block_hash)

\* check_chain_validity with a walk that starts at the second block.
CheckChainValiditySkipFirst(c) == IF Len(c) > 1 THEN CheckFrom(c, 2, c[1].hash) ELSE CheckFrom(c, 1, <<0>>)

CheckChainValidity(c) == CheckFrom(c, 1, <<0>>)

\* Blockchain.proof_of_work as a function: the block with the nonce the
\* search stops at.
RECURSIVE PowSearch(_)
PowSearch(b) == IF StartsWith(ComputeHash(b), Zeros(difficulty)) THEN b ELSE PowSearch([b EXCEPT !.nonce = @ + 1])

ProofOfWork(b) == PowSearch([b EXCEPT !.nonce = 0])

\* The block a node's mine() appends after `prev` when nothing interleaves.
MinedBlock(prev, data, timestamp) == LET b == ProofOfWork(Block(prev.index + 1, data, timestamp, prev.hash, 0)) IN SetHash(b, ComputeHash(b))

\* The chain of a peer that mined n - 1 blocks, one entry each.
RECURSIVE PeerChain(_)
PeerChain(n) == IF n <= 1 THEN <<GenesisBlock>> ELSE LET c == PeerChain(n - 1) IN Append(c, MinedBlock(c[Len(c)], <<[author |-> 1, content |-> 1, timestamp |-> 1]>>, 1))

\* get_chain: the chain as a list of the blocks' __dict__, and its length.
ChainDump(c) == [i \in 1..Len(c) |-> [c[i] EXCEPT !.cls = "dict"]]

GetChain(c) == [ok |-> TRUE, length |-> Len(c), chain |-> ChainDump(c)]

\* A dump whose second block's data was altered, hash and nonce kept.
Tamper(c) == [c EXCEPT ![2].data = <<>>]

\* What a peer may answer to GET /chain: an honest chain, a tampered one, a
\* length with an empty chain, or no answer at all.
PeerResponses == {GetChain(PeerChain(n)) : n \in 1..(MaxChain + 2)} \cup {GetChain(Tamper(PeerChain(n))) : n \in 2..(MaxChain + 2)} \cup {[ok |-> TRUE, length |-> MaxChain + 2, chain |-> <<>>], [ok |-> FALSE, length |-> 0, chain |-> <<>>]}

----------------------------------------------------------------------------
\* new_block.data is the pool list itself (line 121) from the construction of
\* the candidate until mine rebinds the pool (line 127).
CandidateLive == pc["mine"] \in {"pow73", "ab52", "ab60", "m127"}

\* Blockchain.add_new_data: list.append on the pool list, seen through every
\* reference to that list.
AddNewData(data) ==
    /\ unconfirmed_data' = Append(unconfirmed_data, data)
    /\ blk' = IF CandidateLive THEN [blk EXCEPT !["mine"].data = Append(@, data)] ELSE blk
    /\ chain' = IF aliasIdx # 0 THEN [chain EXCEPT ![aliasIdx].data = Append(@, data)] ELSE chain
    /\ late' = IF CandidateLive THEN Append(late, data) ELSE late

\* new_data: POST /new_data
NewData(author, content, now) ==
    /\ Len(unconfirmed_data) < MaxPool
    /\ IF author = 0 \/ content = 0
       THEN UNCHANGED <<unconfirmed_data, blk, chain, late>>
       ELSE AddNewData([author |-> author, content |-> content, timestamp |-> now])
    /\ UNCHANGED <<peers, pc, prf, added, aliasIdx, mineVars, consVars, regVars, callVars>>

\* register_new_peers: POST /register_node
RegisterNewPeers(node_address) ==
    /\ peers' = IF node_address = 0 THEN peers ELSE peers \cup {node_address}
    /\ UNCHANGED <<chain, unconfirmed_data, pc, blk, prf, added, aliasIdx, late, mineVars, consVars, regVars, callVars>>

\* add_block returns `val` to its caller: mine goes on to line 127, the
\* /add_block handler to line 262.
AddBlockReturn(t, val) ==
    /\ added' = [added EXCEPT ![t] = val]
    /\ pc' = [pc EXCEPT ![t] = IF t = "mine" THEN "m127" ELSE "v262"]

\* add_block without the linkage check.
AddBlockCheckNoLink(t, block, proof) ==
    /\ IF ~IsValidProof(block, proof) THEN AddBlockReturn(t, "False") /\ UNCHANGED <<blk, prf>>
       ELSE /\ pc' = [pc EXCEPT ![t] = "ab60"]
            /\ blk' = [blk EXCEPT ![t] = block]
            /\ prf' = [prf EXCEPT ![t] = proof]
            /\ UNCHANGED added
    /\ UNCHANGED <<chain, unconfirmed_data, peers, aliasIdx, late, mineVars, consVars, regVars, callVars>>

\* add_block without the proof check.
AddBlockCheckNoProof(t, block, proof) ==
    /\ IF LastBlock.hash # block.previous_hash THEN AddBlockReturn(t, "False") /\ UNCHANGED <<blk, prf>>
       ELSE /\ pc' = [pc EXCEPT ![t] = "ab60"]
            /\ blk' = [blk EXCEPT ![t] = block]
            /\ prf' = [prf EXCEPT ![t] = proof]
            /\ UNCHANGED added
    /\ UNCHANGED <<chain, unconfirmed_data, peers, aliasIdx, late, mineVars, consVars, regVars, callVars>>

\* Blockchain.add_block, lines 52-58: the linkage check and the proof check.
\* The proof check reads only the block, so the two are one step, taken when
\* the head is read.
AddBlockCheck(t, block, proof) ==
    /\ IF LastBlock.hash # block.previous_hash THEN AddBlockReturn(t, "False") /\ UNCHANGED <<blk, prf>>
       ELSE IF ~IsValidProof(block, proof) THEN AddBlockReturn(t, "False") /\ UNCHANGED <<blk, prf>>
       ELSE /\ pc' = [pc EXCEPT ![t] = "ab60"]
            /\ blk' = [blk EXCEPT ![t] = block]
            /\ prf' = [prf EXCEPT ![t] = proof]
            /\ UNCHANGED added
    /\ UNCHANGED <<chain, unconfirmed_data, peers, aliasIdx, late, mineVars, consVars, regVars, callVars>>

\* Blockchain.add_block, lines 60-62: the hash is stored and the block appended.
AddBlockAppend(t) ==
    /\ pc[t] = "ab60"
    /\ blk' = [blk EXCEPT ![t] = IF t = "mine" THEN SetHash(@, prf[t]) ELSE NoBlock]
    /\ chain' = Append(chain, SetHash(blk[t], prf[t]))
    /\ aliasIdx' = IF t = "mine" THEN Len(chain) + 1 ELSE aliasIdx
    /\ prf' = [prf EXCEPT ![t] = IF t = "mine" THEN @ ELSE <<>>]
    /\ AddBlockReturn(t, "True")
    /\ UNCHANGED <<unconfirmed_data, peers, late, mineVars, consVars, regVars, callVars>>

\* Blockchain.mine, line 125: add_block is called with the candidate and
\* the digest proof_of_work returned.
MineAddBlock ==
    /\ pc["mine"] = "ab52"
    /\ AddBlockCheck("mine", blk["mine"], prf["mine"])

\* verify_and_add_block: POST /add_block, the block is built from the
\* request's fields and add_block is called.
VerifyAndAddBlock(index, data, timestamp, previous_hash, nonce, hash) ==
    /\ pc["peer"] = "idle"
    /\ AddBlockCheck("peer", Block(index, data, timestamp, previous_hash, nonce), hash)

\* verify_and_add_block, lines 262-265: the answer is sent (201 when added,
\* 400 when not) and the request is over.
VerifyRespond ==
    /\ pc["peer"] = "v262"
    /\ pc' = [pc EXCEPT !["peer"] = "idle"]
    /\ blk' = [blk EXCEPT !["peer"] = NoBlock]
    /\ prf' = [prf EXCEPT !["peer"] = <<>>]
    /\ added' = [added EXCEPT !["peer"] = "None"]
    /\ UNCHANGED <<chain, unconfirmed_data, peers, aliasIdx, late, mineVars, consVars, regVars, callVars>>

\* mine without the empty-pool return.
MineBeginAlways(now) ==
    /\ pc["mine"] = "idle"
    /\ Len(chain) < MaxChain
    /\ last_block' = LastBlock
    /\ blk' = [blk EXCEPT !["mine"] = Block(LastBlock.index + 1, unconfirmed_data, now, LastBlock.hash, 0)]
    /\ computed_hash' = ComputeHash(Block(LastBlock.index + 1, unconfirmed_data, now, LastBlock.hash, 0))
    /\ pc' = [pc EXCEPT !["mine"] = "pow73"]
    /\ UNCHANGED <<mret, hres>>
    /\ UNCHANGED <<chain, unconfirmed_data, peers, prf, added, aliasIdx, late, consVars, regVars, callVars>>

\* mine with a candidate that takes the pool's entries newest first.
MineBeginNewestFirst(now) ==
    /\ pc["mine"] = "idle"
    /\ Len(chain) < MaxChain
    /\ IF unconfirmed_data = <<>>
       THEN /\ mret' = "False"
            /\ hres' = "No data to mine"
            /\ pc' = [pc EXCEPT !["mine"] = "h_ret"]
            /\ UNCHANGED <<blk, last_block, computed_hash>>
       ELSE /\ last_block' = LastBlock
            /\ blk' = [blk EXCEPT !["mine"] = Block(LastBlock.index + 1, [i \in 1..Len(unconfirmed_data) |-> unconfirmed_data[Len(unconfirmed_data) + 1 - i]], now, LastBlock.hash, 0)]
            /\ computed_hash' = ComputeHash(Block(LastBlock.index + 1, [i \in 1..Len(unconfirmed_data) |-> unconfirmed_data[Len(unconfirmed_data) + 1 - i]], now, LastBlock.hash, 0))
            /\ pc' = [pc EXCEPT !["mine"] = "pow73"]
            /\ UNCHANGED <<mret, hres>>
    /\ UNCHANGED <<chain, unconfirmed_data, peers, prf, added, aliasIdx, late, consVars, regVars, callVars>>

\* Blockchain.mine, lines 115-123, and proof_of_work, lines 70-72: the
\* empty-pool return, the head read, the candidate, whose data is the pool
\* list itself, and the first digest of the search, with nonce 0.
MineBegin(now) ==
    /\ pc["mine"] = "idle"
    /\ Len(chain) < MaxChain
    /\ IF unconfirmed_data = <<>>
       THEN /\ mret' = "False"
            /\ hres' = "No data to mine"
            /\ pc' = [pc EXCEPT !["mine"] = "h_ret"]
            /\ UNCHANGED <<blk, last_block, computed_hash>>
       ELSE /\ last_block' = LastBlock
            /\ blk' = [blk EXCEPT !["mine"] = Block(LastBlock.index + 1, unconfirmed_data, now, LastBlock.hash, 0)]
            /\ computed_hash' = ComputeHash(Block(LastBlock.index + 1, unconfirmed_data, now, LastBlock.hash, 0))
            /\ pc' = [pc EXCEPT !["mine"] = "pow73"]
            /\ UNCHANGED <<mret, hres>>
    /\ UNCHANGED <<chain, unconfirmed_data, peers, prf, added, aliasIdx, late, consVars, regVars, callVars>>

\* proof_of_work that steps the nonce once more after the digest qualified.
PowLoopOvershoot ==
    /\ pc["mine"] = "pow73"
    /\ blk' = [blk EXCEPT !["mine"].nonce = @ + 1]
    /\ IF ~StartsWith(computed_hash, Zeros(difficulty))
       THEN /\ computed_hash' = ComputeHash([blk["mine"] EXCEPT !.nonce = @ + 1])
            /\ UNCHANGED <<pc, prf>>
       ELSE /\ prf' = [prf EXCEPT !["mine"] = computed_hash]
            /\ pc' = [pc EXCEPT !["mine"] = "ab52"]
            /\ UNCHANGED computed_hash
    /\ UNCHANGED <<chain, unconfirmed_data, peers, added, last_block, aliasIdx, mret, hres, late, consVars, regVars, callVars>>

\* proof_of_work with a loop condition one zero short.
PowLoopWeak ==
    /\ pc["mine"] = "pow73"
    /\ IF ~StartsWith(computed_hash, Zeros(difficulty - 1))
       THEN /\ blk' = [blk EXCEPT !["mine"].nonce = @ + 1]
            /\ computed_hash' = ComputeHash([blk["mine"] EXCEPT !.nonce = @ + 1])
            /\ UNCHANGED <<pc, prf>>
       ELSE /\ prf' = [prf EXCEPT !["mine"] = computed_hash]
            /\ pc' = [pc EXCEPT !["mine"] = "ab52"]
            /\ UNCHANGED <<blk, computed_hash>>
    /\ UNCHANGED <<chain, unconfirmed_data, peers, added, last_block, aliasIdx, mret, hres, late, consVars, regVars, callVars>>

\* Blockchain.proof_of_work, lines 73-77: one test of the loop condition;
\* the digest returned is add_block's proof (line 125).
PowLoop ==
    /\ pc["mine"] = "pow73"
    /\ IF ~StartsWith(computed_hash, Zeros(difficulty))
       THEN /\ blk' = [blk EXCEPT !["mine"].nonce = @ + 1]
            /\ computed_hash' = ComputeHash([blk["mine"] EXCEPT !.nonce = @ + 1])
            /\ UNCHANGED <<pc, prf>>
       ELSE /\ prf' = [prf EXCEPT !["mine"] = computed_hash]
            /\ pc' = [pc EXCEPT !["mine"] = "ab52"]
            /\ UNCHANGED <<blk, computed_hash>>
    /\ UNCHANGED <<chain, unconfirmed_data, peers, added, last_block, aliasIdx, mret, hres, late, consVars, regVars, callVars>>

\* Blockchain.mine, lines 127-129: the pool is rebound to a new list, whatever
\* add_block returned, and mine returns True; then mine_unconfirmed_data,
\* line 181, and consensus, lines 277-282: the lengths are read and the loop
\* over peers starts.  (Nothing another request does between the two parts
\* is seen by either.)
MineClear ==
    /\ pc["mine"] = "m127"
    /\ unconfirmed_data' = <<>>
    /\ aliasIdx' = 0
    /\ mret' = "True"
    /\ blk' = [blk EXCEPT !["mine"] = NoBlock]
    /\ prf' = [prf EXCEPT !["mine"] = <<>>]
    /\ added' = [added EXCEPT !["mine"] = "None"]
    /\ last_block' = NoBlock
    /\ computed_hash' = <<>>
    /\ late' = <<>>
    /\ chain_length' = Len(chain)
    /\ current_len' = Len(chain)
    /\ longest_chain' = [set |-> FALSE, chain |-> <<>>]
    /\ todo' = peers
    /\ npeers' = Cardinality(peers)
    /\ pc' = [pc EXCEPT !["mine"] = "c282"]
    /\ UNCHANGED <<chain, peers, hres, cret, qualified, regVars, callVars>>

\* A /mine request ends with an exception.
Raise(e) ==
    /\ hres' = e
    /\ pc' = [pc EXCEPT !["mine"] = "h_ret"]

\* A chain dump that qualifies for adoption: a genesis block followed by
\* blocks that each link to their predecessor and carry a valid proof.
FullyValid(d) ==
    /\ Len(d) >= 1
    /\ d[1] = [GenesisBlock EXCEPT !.cls = "dict"]
    /\ \A i \in 2..Len(d) : d[i].previous_hash = d[i - 1].hash /\ IsValidProof(DelHash([d[i] EXCEPT !.cls = "Block"]), d[i].hash)

\* consensus, lines 282-289: one peer is asked for its chain.  A set that
\* grew during the loop, a peer that does not answer and a non-empty dump
\* that reaches check_chain_validity each raise.
ConsensusPoll(node, response) ==
    /\ pc["mine"] = "c282"
    /\ node \in todo
    /\ todo' = todo \ {node}
    /\ qualified' = (qualified \/ (Cardinality(peers) = npeers /\ response.ok /\ response.length > chain_length /\ FullyValid(response.chain)))
    /\ IF Cardinality(peers) # npeers THEN Raise("RuntimeError") /\ UNCHANGED <<current_len, longest_chain>>
       ELSE IF ~response.ok THEN Raise("ConnectionError") /\ UNCHANGED <<current_len, longest_chain>>
       ELSE IF ~(response.length > current_len) THEN UNCHANGED <<hres, pc, current_len, longest_chain>>
       ELSE IF CheckChainValidity(response.chain).result = "AttributeError" THEN Raise("AttributeError") /\ UNCHANGED <<current_len, longest_chain>>
       ELSE IF CheckChainValidity(response.chain).result = "True"
            THEN current_len' = response.length /\ longest_chain' = [set |-> TRUE, chain |-> response.chain] /\ UNCHANGED <<hres, pc>>
            ELSE UNCHANGED <<hres, pc, current_len, longest_chain>>
    /\ UNCHANGED <<chain, unconfirmed_data, peers, blk, prf, added, last_block, computed_hash, aliasIdx, mret, late, chain_length, npeers, cret, regVars, callVars>>

\* consensus, lines 291-295: the loop is over; a truthy longest_chain
\* replaces the node's blockchain.
ConsensusEnd ==
    /\ pc["mine"] = "c282"
    /\ todo = {}
    /\ IF Cardinality(peers) # npeers
       THEN Raise("RuntimeError") /\ UNCHANGED <<chain, unconfirmed_data, cret>>
       ELSE IF longest_chain.set /\ longest_chain.chain # <<>>
            THEN chain' = longest_chain.chain /\ unconfirmed_data' = <<>> /\ cret' = "True" /\ pc' = [pc EXCEPT !["mine"] = "h184"] /\ UNCHANGED hres
            ELSE cret' = "False" /\ pc' = [pc EXCEPT !["mine"] = "h184"] /\ UNCHANGED <<chain, unconfirmed_data, hres>>
    /\ UNCHANGED <<peers, blk, prf, added, last_block, computed_hash, aliasIdx, mret, late, chain_length, current_len, longest_chain, todo, npeers, qualified, regVars, callVars>>

\* mine_unconfirmed_data, lines 184-188, and announce_new_block: with the
\* length unchanged the block is announced, and requests.post(url, ata=...)
\* raises for the first peer.
Announce ==
    /\ pc["mine"] = "h184"
    /\ hres' = IF chain_length = Len(chain) /\ peers # {} THEN "TypeError" ELSE "mined"
    /\ pc' = [pc EXCEPT !["mine"] = "h_ret"]
    /\ UNCHANGED <<chain, unconfirmed_data, peers, blk, prf, added, last_block, computed_hash, aliasIdx, mret, late, consVars, regVars, callVars>>

\* mine_unconfirmed_data: the answer (or the error) is sent and the request
\* is over; its locals are gone.
MineRespond ==
    /\ pc["mine"] = "h_ret"
    /\ pc' = [pc EXCEPT !["mine"] = "idle"]
    /\ blk' = [blk EXCEPT !["mine"] = NoBlock]
    /\ prf' = [prf EXCEPT !["mine"] = <<>>]
    /\ added' = [added EXCEPT !["mine"] = "None"]
    /\ last_block' = NoBlock
    /\ computed_hash' = <<>>
    /\ mret' = "None"
    /\ hres' = "None"
    /\ chain_length' = 0
    /\ current_len' = 0
    /\ longest_chain' = [set |-> FALSE, chain |-> <<>>]
    /\ todo' = {}
    /\ npeers' = 0
    /\ cret' = "None"
    /\ qualified' = FALSE
    /\ UNCHANGED <<chain, unconfirmed_data, peers, aliasIdx, late, regVars, callVars>>

----------------------------------------------------------------------------
\* A chain whose block i had its data altered, hash and nonce kept.
TamperAt(c, i) == [c EXCEPT ![i].data = <<>>]

\* What a node may answer to POST /register_node: 200 with the dump of an
\* honest chain or of one with an altered block, and its peers (this node
\* among them); or another status.
RegisterResponses == {[status |-> 200, chain |-> ChainDump(PeerChain(n)), peers |-> {1}] : n \in 1..(MaxChain + 1)} \cup UNION {{[status |-> 200, chain |-> ChainDump(TamperAt(PeerChain(n), i)), peers |-> {1}] : i \in {2, n}} : n \in 2..(MaxChain + 1)} \cup {[status |-> 400, chain |-> <<>>, peers |-> {}]}

\* create_chain_from_dump that keeps what was appended before a block failed.
RECURSIVE CreateFromPartial(_, _, _)
CreateFromPartial(chain_dump_, idx, generated) ==
    IF idx > Len(chain_dump_) THEN [raised |-> FALSE, chain |-> generated]
    ELSE LET block_data == chain_dump_[idx]
             block == Block(block_data.index, block_data.data, block_data.timestamp, block_data.previous_hash, block_data.nonce)
         IN  IF generated[Len(generated)].hash # block.previous_hash \/ ~IsValidProof(block, block_data.hash)
             THEN [raised |-> FALSE, chain |-> generated]
             ELSE CreateFromPartial(chain_dump_, idx + 1, Append(generated, SetHash(block, block_data.hash)))

\* create_chain_from_dump, lines 240-248: the loop from position idx, with
\* the chain generated so far.  Each block goes through add_block (lines
\* 52-62) on the generated blockchain; the first one refused raises.
RECURSIVE CreateFrom(_, _, _)
CreateFrom(chain_dump_, idx, generated) ==
    IF idx > Len(chain_dump_) THEN [raised |-> FALSE, chain |-> generated]
    ELSE LET block_data == chain_dump_[idx]
             block == Block(block_data.index, block_data.data, block_data.timestamp, block_data.previous_hash, block_data.nonce)
         IN  IF generated[Len(generated)].hash # block.previous_hash \/ ~IsValidProof(block, block_data.hash)
             THEN [raised |-> TRUE, chain |-> generated]
             ELSE CreateFrom(chain_dump_, idx + 1, Append(generated, SetHash(block, block_data.hash)))

\* create_chain_from_dump: a new blockchain with its own genesis block; the
\* dump's first element is skipped.
CreateChainFromDump(chain_dump_) == CreateFrom(chain_dump_, 2, <<GenesisBlock>>)

\* No request is being served by /mine or /add_block.  (A request in flight
\* keeps working on the blockchain object it started with; the model keeps
\* one blockchain, so /register_with, which replaces the object, is served
\* between such requests.)
Quiet == \A t \in Threads : pc[t] = "idle"

\* register_with_existing_node: POST /register_with.  With status 200 the
\* node's blockchain becomes the one rebuilt from the dump, with an empty
\* pool of its own, and the peers are merged; a refused block raises before
\* anything is assigned.
RegisterWithExistingNode(node_address, response) ==
    /\ rpc = "idle"
    /\ Quiet
    /\ rpc' = "r_ret"
    /\ IF node_address = 0
       THEN rres' = "Invalid data" /\ UNCHANGED <<chain, unconfirmed_data, peers, chain_dump>>
       ELSE IF response.status # 200
       THEN rres' = "error" /\ UNCHANGED <<chain, unconfirmed_data, peers, chain_dump>>
       ELSE /\ chain_dump' = response.chain
            /\ IF CreateChainFromDump(response.chain).raised
               THEN rres' = "Exception" /\ UNCHANGED <<chain, unconfirmed_data, peers>>
               ELSE /\ chain' = CreateChainFromDump(response.chain).chain
                    /\ unconfirmed_data' = <<>>
                    /\ peers' = peers \cup response.peers
                    /\ rres' = "Registration successful"
    /\ UNCHANGED <<pc, blk, prf, added, aliasIdx, late, mineVars, consVars, vchain, vresult>>

\* register_with_existing_node: the answer (or the error) is sent and the
\* request is over.
RegisterRespond ==
    /\ rpc = "r_ret"
    /\ rpc' = "idle"
    /\ chain_dump' = <<>>
    /\ rres' = "None"
    /\ UNCHANGED <<chain, unconfirmed_data, peers, pc, blk, prf, added, aliasIdx, late, mineVars, consVars, vchain, vresult>>

----------------------------------------------------------------------------
\* The fields an /add_block request may carry: a right and a wrong index, an
\* empty and a non-empty payload, the "0" sentinel or the hash of a block of
\* the chain, the nonce a search would find or none, and as hash the
\* block's digest or a string of zeros.
ForeignIndex == {0, LastBlock.index + 1}
ForeignData == {<<>>, <<[author |-> 1, content |-> 1, timestamp |-> 1]>>}
ForeignPrev == {<<0>>} \cup {chain[i].hash : i \in 1..Len(chain)}
ForeignNonce(b) == {0, ProofOfWork(b).nonce}
ForeignHash(b) == {ComputeHash(b), Zeros(difficulty)}

\* A POST /add_block arrives while none is being served.
AddBlockRequest ==
    /\ pc["peer"] = "idle"
    /\ Len(chain) < MaxChain
    /\ \E i \in ForeignIndex, d \in ForeignData, ts \in Times, p \in ForeignPrev :
          \E n \in ForeignNonce(Block(i, d, ts, p, 0)) : \E h \in ForeignHash(Block(i, d, ts, p, n)) : VerifyAndAddBlock(i, d, ts, p, n, h)

\* A /register_with request is served alone: no other request starts before
\* its answer is sent.
NotRegistering == rpc = "idle"

Next ==
    \/ NotRegistering /\ \E a \in Authors, c \in Contents, now \in Times : NewData(a, c, now)
    \/ NotRegistering /\ \E n \in NodeAddresses : RegisterNewPeers(n)
    \/ NotRegistering /\ AddBlockRequest
    \/ \E t \in Threads : AddBlockAppend(t)
    \/ VerifyRespond
    \/ NotRegistering /\ \E now \in Times : MineBegin(now)
    \/ PowLoop
    \/ MineAddBlock
    \/ MineClear
    \/ \E node \in todo, r \in PeerResponses : ConsensusPoll(node, r)
    \/ ConsensusEnd
    \/ Announce
    \/ MineRespond
    \/ \E n \in NodeAddresses, r \in RegisterResponses : RegisterWithExistingNode(n, r)
    \/ RegisterRespond

Spec == Init /\ [][Next]_vars

\* A thread that is in proof_of_work's loop goes on running it.
FairSpec == Spec /\ WF_vars(PowLoop)

----------------------------------------------------------------------------
\* The node serving one request at a time: a request starts only when no
\* other is being served, so no operation interleaves with another.

\* The "content" a /new_data request carries here: two different ones, so
\* that the order of the pool's entries shows.
SeqContents == {0, 1, 2}

AtRest == Quiet /\ rpc = "idle"

SeqNext ==
    \/ AtRest /\ \E a \in Authors, c \in SeqContents, now \in Times : NewData(a, c, now)
    \/ AtRest /\ \E n \in NodeAddresses : RegisterNewPeers(n)
    \/ AtRest /\ AddBlockRequest
    \/ AtRest /\ \E now \in Times : MineBegin(now)
    \/ AtRest /\ \E n \in NodeAddresses, r \in RegisterResponses : RegisterWithExistingNode(n, r)
    \/ \E t \in Threads : AddBlockAppend(t)
    \/ VerifyRespond
    \/ PowLoop
    \/ MineAddBlock
    \/ MineClear
    \/ \E node \in todo, r \in PeerResponses : ConsensusPoll(node, r)
    \/ ConsensusEnd
    \/ Announce
    \/ MineRespond
    \/ RegisterRespond

SeqSpec == Init /\ [][SeqNext]_vars

----------------------------------------------------------------------------
\* check_chain_validity called directly on a list of Block objects.

\* A first block like the genesis block, but with a nonce found by search, so
\* that its hash has the leading zeros the walk asks of every block.
ProvenGenesis == LET b == ProofOfWork(Block(0, <<>>, 0, <<0>>, 0)) IN SetHash(b, ComputeHash(b))

\* The blocks that may follow `prev` in an argument: one mined on it, with or
\* without data, one mined on it whose data was altered afterwards, and one
\* mined on the genesis block.
Successors(prev) == {MinedBlock(prev, d, 1) : d \in ForeignData} \cup {[MinedBlock(prev, <<[author |-> 1, content |-> 1, timestamp |-> 1]>>, 1) EXCEPT !.data = <<>>]} \cup {MinedBlock(GenesisBlock, <<>>, 1)}

\* The arguments of n blocks: they start with the genesis block or with a
\* proven first block.
RECURSIVE InputChains(_)
InputChains(n) == IF n <= 1 THEN {<<GenesisBlock>>, <<ProvenGenesis>>} ELSE UNION {{Append(c, b) : b \in Successors(c[Len(c)])} : c \in InputChains(n - 1)}

CallInputs == UNION {InputChains(n) : n \in 1..(MaxChain + 2)}

ValidityInit ==
    /\ NodeInit
    /\ vchain \in CallInputs
    /\ vresult = "None"

\* Blockchain.check_chain_validity(vchain): the list is left as the walk
\* leaves it.
CheckChainValidityCall ==
    /\ vresult = "None"
    /\ vresult' = CheckChainValidity(vchain).result
    /\ vchain' = CheckChainValidity(vchain).chain
    /\ UNCHANGED <<chain, unconfirmed_data, peers, pc, blk, prf, added, aliasIdx, late, mineVars, consVars, regVars>>

ValidityNext == CheckChainValidityCall

ValiditySpec == ValidityInit /\ [][ValidityNext]_vars

----------------------------------------------------------------------------
\* Properties

\* The digest of a block's index, data, timestamp, previous_hash and nonce.
FieldsDigest(b) == ComputeHash(DelHash(b))

\* C1: in every reachable state every non-genesis block of the chain links
\* to its predecessor's hash, and its hash has `difficulty` leading zeros and
\* is the digest of its own five fields.
C1_ChainLinkedAndProven ==
    \A i \in 2..Len(chain) :
        /\ chain[i].previous_hash = chain[i - 1].hash
        /\ StartsWith(chain[i].hash, Zeros(difficulty))
        /\ chain[i].hash = FieldsDigest(chain[i])

\* A call of add_block by thread t goes on to the append.
Accepts(t) == pc[t] # "ab60" /\ pc'[t] = "ab60"

\* A call of add_block by thread t returns False.
Rejects(t) == added[t] # "False" /\ added'[t] = "False"

\* C2: a call of add_block whose block's previous_hash differs from the hash
\* of the last block it reads returns False and leaves the chain unchanged,
\* whatever the proof: a call goes on to the append only with a matching
\* previous_hash, a call that returns False changes no block, and mine's call
\* with a mismatching candidate returns False.
C2_LinkMismatchRejected ==
    [][\A t \in Threads :
        /\ Accepts(t) => blk'[t].previous_hash = LastBlock.hash
        /\ Rejects(t) => chain' = chain
        /\ (t = "mine" /\ pc[t] = "ab52" /\ pc'[t] # "ab52" /\ blk[t].previous_hash # LastBlock.hash) => (Rejects(t) /\ chain' = chain)]_vars

\* C2 witness: mine's add_block has returned False for a candidate whose
\* previous_hash is not the head's hash (a foreign block came in between).
C2_Witness ==
    /\ pc["mine"] = "m127"
    /\ added["mine"] = "False"
    /\ blk["mine"].previous_hash # LastBlock.hash
    /\ prf["mine"] = ComputeHash(blk["mine"])

\* C3: a call of add_block whose proof lacks `difficulty` leading zeros or
\* differs from the digest recomputed from the block returns False and
\* leaves the chain unchanged, also when previous_hash matches the head.
C3_BadProofRejected ==
    [][\A t \in Threads :
        /\ Accepts(t) => (StartsWith(prf'[t], Zeros(difficulty)) /\ prf'[t] = ComputeHash(blk'[t]))
        /\ Rejects(t) => chain' = chain
        /\ (t = "mine" /\ pc[t] = "ab52" /\ pc'[t] # "ab52" /\ ~(StartsWith(prf[t], Zeros(difficulty)) /\ prf[t] = ComputeHash(blk[t]))) => (Rejects(t) /\ chain' = chain)]_vars

\* C3 witness: mine's add_block has returned False for a candidate that
\* links to the head but whose digest is no longer the proof.
C3_Witness ==
    /\ pc["mine"] = "m127"
    /\ added["mine"] = "False"
    /\ blk["mine"].previous_hash = LastBlock.hash
    /\ prf["mine"] # ComputeHash(blk["mine"])

\* consensus() is over: it returned, or an exception ended it.
ConsensusOver == pc["mine"] = "h184" \/ (pc["mine"] = "h_ret" /\ mret = "True")

\* C4: consensus() adopts only a strictly longer, fully valid peer chain,
\* and when every peer answered and none offered such a chain it returns
\* False.
C4_ConsensusReturnsFalse ==
    (ConsensusOver /\ hres \notin {"ConnectionError", "RuntimeError"}) =>
        /\ cret = "True" => qualified
        /\ ~qualified => cret = "False"

\* C5: mine() returns True (and clears the pool) only when add_block
\* appended its candidate; when add_block returned False it returns False
\* and leaves the pool untouched.
C5_MineReportsAppend ==
    [][(pc["mine"] = "m127" /\ pc'["mine"] # "m127") =>
        /\ mret' = "True" => added["mine"] = "True"
        /\ added["mine"] = "False" => (mret' = "False" /\ unconfirmed_data' = unconfirmed_data)]_vars

\* C6: the entries added to the pool after mine() took its payload are
\* still in the pool when mine() has cleared it: the clear removes exactly
\* the entries of the payload.
C6_LateEntriesKept ==
    [][(pc["mine"] = "m127" /\ pc'["mine"] # "m127") => unconfirmed_data' = late]_vars

C8_HashIgnoresHashAttribute ==
    \A i \in 1..Len(chain) : ComputeHash(chain[i]) = FieldsDigest(chain[i])

\* C9: when nothing was added to the candidate during the search, the digest
\* proof_of_work returned has `difficulty` leading zeros and is a valid
\* proof of the candidate right after the search.
C9_SearchYieldsValidProof ==
    (pc["mine"] = "ab52" /\ late = <<>>) =>
        /\ StartsWith(prf["mine"], Zeros(difficulty))
        /\ IsValidProof(blk["mine"], prf["mine"])

\* C9 witness: a search that had to step the nonce has returned, nothing
\* added meanwhile.
C9_Witness ==
    /\ pc["mine"] = "ab52"
    /\ late = <<>>
    /\ blk["mine"].nonce > 0

\* The copies of block b that differ from it in exactly one field.
Entry1 == [author |-> 1, content |-> 1, timestamp |-> 1]
Entry2 == [author |-> 1, content |-> 2, timestamp |-> 2]
OtherHashes == {<<0>>, Zeros(difficulty)} \cup {chain[i].hash : i \in 1..Len(chain)}
TamperedCopies(b) ==
    {[b EXCEPT !.index = v] : v \in (0..(MaxChain + 1)) \ {b.index}}
    \cup {[b EXCEPT !.data = v] : v \in {<<>>, <<Entry1>>, <<Entry2>>, <<Entry1, Entry1>>, <<Entry1, Entry2>>} \ {b.data}}
    \cup {[b EXCEPT !.timestamp = v] : v \in (0..2) \ {b.timestamp}}
    \cup {[b EXCEPT !.previous_hash = v] : v \in OtherHashes \ {b.previous_hash}}
    \cup {[b EXCEPT !.nonce = v] : v \in (0..(2 * Pow(Radix, difficulty))) \ {b.nonce}}

DumpBlockFails(d) ==
    \E i \in 2..Len(d) :
        \/ d[i].previous_hash # (IF i = 2 THEN GenesisBlock.hash ELSE d[i - 1].hash)
        \/ ~IsValidProof(Block(d[i].index, d[i].data, d[i].timestamp, d[i].previous_hash, d[i].nonce), d[i].hash)

\* C11: when /register_with receives a dump of which some non-genesis block
\* fails add_block, the dump is rejected with an exception and the chain is
\* left exactly as it was: no prefix of the dump is adopted.
C11_DumpAllOrNothing ==
    [][(rpc = "idle" /\ rpc' = "r_ret" /\ DumpBlockFails(chain_dump')) => (rres' = "Exception" /\ chain' = chain)]_vars

\* C11 witness: a dump whose first mined block is good and whose later
\* block was altered has been rejected by a node whose chain is not the
\* dump's good prefix.
C11_Witness ==
    /\ rpc = "r_ret"
    /\ rres = "Exception"
    /\ Len(chain_dump) >= 3
    /\ ~DumpBlockFails(SubSeq(chain_dump, 1, 2))
    /\ ChainDump(chain) # SubSeq(chain_dump, 1, 2)

\* C12: in every reachable state the indexes increase by exactly 1 along the
\* chain: the first block has index 0 and every other block the index of
\* its predecessor plus 1.
C12_IndexesConsecutive ==
    /\ chain[1].index = 0
    /\ \A i \in 2..Len(chain) : chain[i].index = chain[i - 1].index + 1

\* C13: when consensus() is over and some peer reported a strictly longer,
\* fully valid chain (every peer answered), it returned True and the chain is
\* now a fully valid chain longer than the one it started with.
C13_LongerValidChainAdopted ==
    (ConsensusOver /\ qualified /\ hres \notin {"ConnectionError", "RuntimeError"}) =>
        /\ cret = "True"
        /\ Len(chain) > chain_length
        /\ FullyValid(ChainDump(chain))

\* C14: a peer that does not answer is skipped: no consensus() run, and so
\* no /mine request, is ended by the failed request to a peer.
C14_UnreachablePeerSkipped == pc["mine"] = "h_ret" => hres # "ConnectionError"

\* C15: when check_chain_validity returned True on a chain, it returns True
\* on every prefix of that chain that starts at its first block.
C15_PrefixOfValidIsValid ==
    vresult = "True" => \A k \in 1..Len(vchain) : CheckChainValidity(SubSeq(vchain, 1, k)).result = "True"

\* C15 witness: check_chain_validity returned True on a chain of three or
\* more blocks.
C15_Witness == vresult = "True" /\ Len(vchain) >= 3

\* C19: a call of check_chain_validity leaves every block of its argument
\* as it was, its stored hash included, whatever it returns.
C19_CheckLeavesChainAsItWas ==
    [][(vresult = "None" /\ vresult' # "None") => vchain' = vchain]_vars

\* C16: with a non-empty pool and one request served at a time, mine()
\* leaves the chain alone until add_block appends exactly one block to it, and
\* when add_block has returned, the block before the new head is the old
\* head, the new head has the old head's index + 1 and the old head's hash as
\* previous_hash, its data are the pool's entries in their order, its hash
\* has `difficulty` leading zeros; mine() then returns True with the pool
\* empty and the chain as it is.
C16_MineAppendsThePool ==
    [][/\ pc["mine"] \in {"pow73", "ab52", "ab60"} =>
            \/ chain' = chain
            \/ pc["mine"] = "ab60" /\ Len(chain') = Len(chain) + 1 /\ SubSeq(chain', 1, Len(chain)) = chain
       /\ (pc["mine"] = "m127" /\ pc'["mine"] # "m127") =>
            /\ added["mine"] = "True"
            /\ Len(chain) >= 2
            /\ chain[Len(chain) - 1] = last_block
            /\ LastBlock.index = last_block.index + 1
            /\ LastBlock.previous_hash = last_block.hash
            /\ unconfirmed_data # <<>>
            /\ LastBlock.data = unconfirmed_data
            /\ StartsWith(LastBlock.hash, Zeros(difficulty))
            /\ mret' = "True"
            /\ unconfirmed_data' = <<>>
            /\ chain' = chain]_vars

\* C16 witness: add_block has returned True to mine() for a pool of two
\* different entries.
C16_Witness ==
    /\ pc["mine"] = "m127"
    /\ added["mine"] = "True"
    /\ Len(unconfirmed_data) = 2
    /\ unconfirmed_data[1] # unconfirmed_data[2]

\* C17: mine() called with an empty pool returns False at once: the chain
\* and the pool are unchanged, no candidate is built and no search is started.
C17_EmptyPoolNoOp ==
    [][(pc["mine"] = "idle" /\ pc'["mine"] # "idle" /\ unconfirmed_data = <<>>) =>
        /\ mret' = "False"
        /\ pc'["mine"] = "h_ret"
        /\ chain' = chain
        /\ unconfirmed_data' = unconfirmed_data
        /\ blk' = blk
        /\ computed_hash' = computed_hash]_vars

\* C17 witness: mine() has returned False and /mine answers that there is
\* no data to mine.
C17_Witness == pc["mine"] = "h_ret" /\ mret = "False" /\ hres = "No data to mine" /\ unconfirmed_data = <<>>

\* C18: proof_of_work ends; while it runs, a step that adds no entry keeps
\* the candidate's index, data, timestamp and previous_hash; and when it has
\* returned with no entry added meanwhile, the digest returned is the
\* candidate's digest with the nonce it was left at, it has `difficulty`
\* leading zeros, and no smaller nonce from 0 up gives such a digest.
C18_SearchEndsAtSmallestNonce ==
    /\ [][(pc["mine"] = "pow73" /\ late' = late) =>
            /\ blk'["mine"].index = blk["mine"].index
            /\ blk'["mine"].data = blk["mine"].data
            /\ blk'["mine"].timestamp = blk["mine"].timestamp
            /\ blk'["mine"].previous_hash = blk["mine"].previous_hash]_vars
    /\ []((pc["mine"] = "ab52" /\ late = <<>>) =>
            /\ prf["mine"] = ComputeHash(blk["mine"])
            /\ StartsWith(prf["mine"], Zeros(difficulty))
            /\ \A n \in 0..(blk["mine"].nonce - 1) : ~StartsWith(ComputeHash([blk["mine"] EXCEPT !.nonce = n]), Zeros(difficulty)))
    /\ (pc["mine"] = "pow73" ~> pc["mine"] = "ab52")

\* C18 witness: a search that stepped the nonce more than once has returned,
\* nothing added meanwhile.
C18_Witness ==
    /\ pc["mine"] = "ab52"
    /\ late = <<>>
    /\ blk["mine"].nonce > 1
    /\ blk["mine"].data = unconfirmed_data

\* C20: a step that replaces the node's blockchain, consensus() adopting a
\* peer chain or /register_with adopting a rebuilt dump, leaves the pool of
\* unconfirmed data as it was.
C20_ReplacementKeepsPool ==
    [][(\/ rpc = "idle" /\ rpc' = "r_ret" /\ rres' = "Registration successful"
        \/ pc["mine"] = "c282" /\ cret' = "True") => unconfirmed_data' = unconfirmed_data]_vars

====
